---------------------------- MODULE Spec2Model ----------------------------
(***************************************************************************)
(* Model of packages/query/src/actions.ts of pgtyped: the handshake        *)
(* (startup), the simple query executor (runQuery), the placeholder        *)
(* desugarer (desugarQuery), the type probe (getTypeData) and the type     *)
(* resolver (getTypes), all driven over one AsyncQueue (the protocol       *)
(* sequencer of @pg-typed/wire).                                           *)
(*                                                                         *)
(* A text (a JavaScript string) is a sequence of pieces; every piece is a  *)
(* string.  Texts that the program scans or compares character by          *)
(* character are sequences of one-character pieces; the literals of the    *)
(* source's template strings are kept as single pieces.                    *)
(***************************************************************************)
EXTENDS Integers, Sequences, FiniteSets, TLC

VARIABLES
    call,    \* call[c]: the activation of the exported function caller c runs
    log,     \* the operations performed on the AsyncQueue, in order
    inbox    \* inbound messages the queue holds and no reply() has consumed

vars == <<call, log, inbox>>

----------------------------------------------------------------------------
(* Bounds of the model.                                                    *)

\* longest query text enumerated for desugarQuery
MaxLen == 4

\* most data rows the peer sends in answer to one simple query
MaxRows == 2

\* most times the queue passes from one caller to the other in a run of two
\* callers
MaxSwitches == 2

----------------------------------------------------------------------------
(* JavaScript values.                                                      *)

\* the value undefined; as a property key it reads "undefined"
Undefined == <<"undefined">>

\* an absent record (no value yet)
Nil == [nil |-> TRUE]

\* obj[key] of a JavaScript object: undefined when the key is absent
Get(obj, key) == IF key \in DOMAIN obj THEN obj[key] ELSE Undefined

\* { ...obj, [key]: val }
ObjSet(obj, key, val) ==
    [k \in DOMAIN obj \cup {key} |-> IF k = key THEN val ELSE obj[k]]

\* array[index] with a 0-based index: undefined past the end
At(array, index) == IF index + 1 \in DOMAIN array THEN array[index + 1] ELSE Undefined

Digits == <<"0", "1", "2", "3", "4", "5", "6", "7", "8", "9">>

RECURSIVE DecStr(_)
\* `${n}` of a non-negative integer: its decimal digits
DecStr(n) == IF n < 10 THEN <<Digits[n + 1]>>
             ELSE DecStr(n \div 10) \o <<Digits[(n % 10) + 1]>>

RECURSIVE Join(_, _)
\* array.join(sep) of an array of texts
Join(texts, sep) ==
    IF texts = <<>> THEN <<>>
    ELSE IF Len(texts) = 1 THEN texts[1]
    ELSE texts[1] \o sep \o Join(Tail(texts), sep)

\* array.map(f) for a sequence
Map(f(_), array) == [i \in 1..Len(array) |-> f(array[i])]

\* the characters the model's buffers hold, by character code
CharOf ==
    (48 :> "0") @@ (49 :> "1") @@ (50 :> "2") @@ (51 :> "3") @@ (52 :> "4")
    @@ (53 :> "5") @@ (58 :> ":") @@ (97 :> "a") @@ (100 :> "d") @@ (101 :> "e")
    @@ (102 :> "f") @@ (105 :> "i") @@ (109 :> "m") @@ (110 :> "n")
    @@ (116 :> "t") @@ (120 :> "x")

\* Buffer.toString(): the text of a buffer of character codes
BufferToString(buffer) == [i \in 1..Len(buffer) |-> CharOf[buffer[i]]]

\* the buffer the peer's codec produces for a text
Buffer(text) ==
    [i \in 1..Len(text) |-> CHOOSE code \in DOMAIN CharOf : CharOf[code] = text[i]]

----------------------------------------------------------------------------
(* desugarQuery: a global replace of the placeholder pattern, a colon      *)
(* followed by a greedy group of zero or more \w characters.               *)

\* \w of a JavaScript regular expression: [A-Za-z0-9_]
WordChars ==
    {"a", "b", "c", "d", "e", "f", "g", "h", "i", "j", "k", "l", "m",
     "n", "o", "p", "q", "r", "s", "t", "u", "v", "w", "x", "y", "z",
     "A", "B", "C", "D", "E", "F", "G", "H", "I", "J", "K", "L", "M",
     "N", "O", "P", "Q", "R", "S", "T", "U", "V", "W", "X", "Y", "Z",
     "0", "1", "2", "3", "4", "5", "6", "7", "8", "9", "_"}

RECURSIVE WordRunEnd(_, _)
\* the group is greedy: the index of the last character of the longest run of
\* word characters that starts at index i (i - 1 when the run is empty)
WordRunEnd(query, i) ==
    IF i <= Len(query) /\ query[i] \in WordChars
    THEN WordRunEnd(query, i + 1)
    ELSE i - 1

\* a callback that numbers the markers from 0
ReplacementFromZero(paramNames) == <<"$">> \o DecStr(Len(paramNames) - 1)

\* the replacement callback's result: the marker for the name just pushed
Replacement(paramNames) == <<"$">> \o DecStr(Len(paramNames))

RECURSIVE ReplaceFrom(_, _, _, _)
\* the global replace, scanning from index i with the names pushed and the
\* output built so far
ReplaceFrom(query, i, paramNames, out) ==
    IF i > Len(query)
    THEN [desugaredQuery |-> out, paramNames |-> paramNames]
    ELSE IF query[i] = ":"
    THEN LET end == WordRunEnd(query, i + 1)
             pushed == Append(paramNames, SubSeq(query, i + 1, end))
         IN  ReplaceFrom(query, end + 1, pushed, out \o Replacement(pushed))
    ELSE ReplaceFrom(query, i + 1, paramNames, Append(out, query[i]))

desugarQuery(query) == ReplaceFrom(query, 1, <<>>, <<>>)

----------------------------------------------------------------------------
(* What the peer can send: decoded inbound messages.  Each is a record     *)
(* with its message kind and the fields the codec gives it.                *)

\* fields of an ErrorResponse, keyed by the protocol's one-letter tags:
\* S severity, C code (SQLSTATE), M message, H hint, P position, R routine
SyntaxErrorFields ==
    [S |-> <<"ERROR">>, C |-> <<"42601">>, M |-> <<"syntax error at or near">>,
     P |-> <<"8">>, R |-> <<"scanner_yyerror">>]

\* an ErrorResponse that carries a hint and neither position nor routine
UndefinedTableFields ==
    [S |-> <<"ERROR">>, C |-> <<"42P01">>, M |-> <<"relation does not exist">>,
     H |-> <<"check the schema">>]

ParamLists ==
    << <<>>, <<[oid |-> 23]>>, <<[oid |-> 23], [oid |-> 25]>> >>

\* a column of table 100 (attribute 1, int4)
IdField ==
    [name |-> <<"i", "d">>, tableOID |-> 100, columnAttrNumber |-> 1,
     typeOID |-> 23, typeSize |-> 4, typeModifier |-> -1, formatCode |-> 0]

\* a column of table 100 (attribute 2, text)
NameField ==
    [name |-> <<"n", "a", "m", "e">>, tableOID |-> 100, columnAttrNumber |-> 2,
     typeOID |-> 25, typeSize |-> -1, typeModifier |-> -1, formatCode |-> 0]

\* an expression: no table column behind it
ExprField ==
    [name |-> <<"n">>, tableOID |-> 0, columnAttrNumber |-> 0,
     typeOID |-> 23, typeSize |-> 4, typeModifier |-> -1, formatCode |-> 0]

FieldLists ==
    << <<ExprField>>, <<IdField, NameField, ExprField>> >>

\* a DataRow whose columns hold the given texts
DataRow(texts) ==
    [kind |-> "dataRow",
     columns |-> [i \in 1..Len(texts) |-> [value |-> Buffer(texts[i])]]]

DataRows ==
    << DataRow(<< <<"2", "3">>, <<"i", "n", "t", "4">> >>),
       DataRow(<< <<"2", "5">>, <<"t", "e", "x", "t">> >>),
       DataRow(<< <<"1", "0", "0", ":", "1">>, <<"i", "d">>, <<"t">> >>),
       DataRow(<< <<"1", "0", "0", ":", "2">>, <<"n", "a", "m", "e">>, <<"f">> >>) >>

Inbound ==
    << [kind |-> "readyForQuery"],
       [kind |-> "errorResponse", fields |-> SyntaxErrorFields],
       [kind |-> "errorResponse", fields |-> UndefinedTableFields],
       [kind |-> "parseComplete"],
       [kind |-> "noData"],
       [kind |-> "closeComplete"],
       [kind |-> "commandComplete", commandTag |-> <<"SELECT">>] >>
    \o [i \in DOMAIN ParamLists |->
          [kind |-> "parameterDescription", params |-> ParamLists[i]]]
    \o [i \in DOMAIN FieldLists |->
          [kind |-> "rowDescription", fields |-> FieldLists[i]]]
    \o DataRows

----------------------------------------------------------------------------
(* The AsyncQueue: send() and reply() of the protocol sequencer.           *)

\* where the next inbound message comes from: the head of the inbox, or,
\* with nothing buffered, whatever the peer sends next
Arriving == IF inbox = <<>> THEN DOMAIN Inbound ELSE {0}

Message(i) == IF i = 0 THEN Head(inbox) ELSE Inbound[i]

Event(c, op, kind, expected, payload) ==
    [c |-> c, op |-> op, kind |-> kind, expected |-> expected, payload |-> payload]

\* queue.connect()
Connect(c) ==
    /\ log' = Append(log, Event(c, "connect", "", {}, Nil))
    /\ UNCHANGED inbox

\* queue.send(kind, payload): one outbound message, no reply awaited
Send(c, kind, payload) ==
    /\ log' = Append(log, Event(c, "send", kind, {}, payload))
    /\ UNCHANGED inbox

\* queue.reply(expected...): consumes the next inbound message m; when the
\* peer marks a message with the caller whose request it answers, the log
\* keeps the mark
Reply(c, expected, m) ==
    /\ log' = Append(log, Event(c, "reply", m.kind, expected,
                                IF "for" \in DOMAIN m THEN [for |-> m.for] ELSE Nil))
    /\ inbox' = IF inbox = <<>> THEN inbox ELSE Tail(inbox)

\* the message is of a kind the reply() expects; otherwise reply() rejects
Matches(expected, m) == m.kind \in expected

----------------------------------------------------------------------------
(* Activations.                                                            *)

Void == [void |-> TRUE]

NewCall(op, pc, query, name) ==
    [op |-> op, pc |-> pc, ret |-> "done", query |-> query, name |-> name,
     options |-> [user |-> "app", database |-> "appdb"],
     desugaredQuery |-> <<>>, paramNames |-> <<>>,
     gtdQuery |-> query, rqQuery |-> query,
     params |-> <<>>, fields |-> <<>>, resultRows |-> <<>>,
     typeData |-> Nil, typeMap |-> <<>>, attrMap |-> <<>>,
     retval |-> Nil, result |-> Nil]

\* the function returns value: to its caller's continuation, or to the top
Returned(self, value) ==
    IF self.ret = "done"
    THEN [self EXCEPT !.pc = "done", !.result = value]
    ELSE [self EXCEPT !.pc = self.ret, !.ret = "done", !.retval = value]

\* a caller that catches the rejection and awaits again
ThrownIsCaughtAndRetried(self) == self

\* a rejected reply() throws through every frame: no function catches it,
\* so the locals of the activation are gone and nothing is returned
Thrown(self) == NewCall(self.op, "failed", self.query, self.name)

----------------------------------------------------------------------------
(* startup                                                                 *)

\* startup parameters that leave out the client encoding
startupParamsWithoutEncoding(options) ==
    [user |-> options.user, database |-> options.database]

startupParams(options) ==
    [user |-> options.user, database |-> options.database,
     client_encoding |-> <<"'utf-8'">>]

StartupConnect(c) ==
    /\ call[c].pc = "su_connect"
    /\ Connect(c)
    /\ call' = [call EXCEPT ![c].pc = "su_send"]

StartupSend(c) ==
    /\ call[c].pc = "su_send"
    /\ Send(c, "startupMessage", [params |-> startupParams(call[c].options)])
    /\ call' = [call EXCEPT ![c].pc = "su_reply"]

StartupReply(c) ==
    /\ call[c].pc = "su_reply"
    /\ \E i \in Arriving :
         LET m == Message(i)
             expected == {"readyForQuery"}
         IN  /\ Reply(c, expected, m)
             /\ call' = [call EXCEPT ![c] =
                   IF Matches(expected, m) THEN Returned(@, Void) ELSE Thrown(@)]

----------------------------------------------------------------------------
(* runQuery                                                                *)

\* result.columns.map(c => c.value.toString())
RowOf(result) == [i \in 1..Len(result.columns) |-> BufferToString(result.columns[i].value)]

RunQuerySend(c) ==
    /\ call[c].pc = "rq_send"
    /\ Send(c, "query", [query |-> call[c].rqQuery])
    /\ call' = [call EXCEPT ![c].pc = "rq_rowDescription", ![c].resultRows = <<>>]

\* a runQuery that turns an error-response into a returned ParseError
RunQueryRowDescriptionTranslatesError(c) ==
    /\ call[c].pc = "rq_rowDescription"
    /\ \E i \in Arriving :
         LET m == Message(i)
             expected == {"rowDescription", "errorResponse"}
         IN  /\ Reply(c, expected, m)
             /\ call' = [call EXCEPT ![c] =
                   IF m.kind = "errorResponse"
                   THEN [Thrown(@) EXCEPT !.pc = "done", !.result =
                            [errorCode |-> Get(m.fields, "R"),
                             message |-> Get(m.fields, "M")]]
                   ELSE IF Matches(expected, m) THEN [@ EXCEPT !.pc = "rq_loop"]
                   ELSE Thrown(@)]

RunQueryRowDescription(c) ==
    /\ call[c].pc = "rq_rowDescription"
    /\ \E i \in Arriving :
         LET m == Message(i)
             expected == {"rowDescription"}
         IN  /\ Reply(c, expected, m)
             /\ call' = [call EXCEPT ![c] =
                   IF Matches(expected, m) THEN [@ EXCEPT !.pc = "rq_loop"]
                   ELSE Thrown(@)]

\* a loop that puts each new row in front of the collected ones
RunQueryLoopBodyUnshifts(self, result) ==
    IF "commandTag" \in DOMAIN result
    THEN Returned([self EXCEPT !.resultRows = <<>>], [rows |-> self.resultRows])
    ELSE [self EXCEPT !.resultRows = <<RowOf(result)>> \o @]

\* one iteration of the while (true) loop
RunQueryLoopBody(self, result) ==
    IF "commandTag" \in DOMAIN result
    THEN Returned([self EXCEPT !.resultRows = <<>>], [rows |-> self.resultRows])
    ELSE [self EXCEPT !.resultRows = Append(@, RowOf(result))]

RunQueryLoop(c) ==
    /\ call[c].pc = "rq_loop"
    /\ \E i \in Arriving :
         LET m == Message(i)
             expected == {"dataRow", "commandComplete"}
         IN  /\ m.kind = "dataRow" => Len(call[c].resultRows) < MaxRows
             /\ Reply(c, expected, m)
             /\ call' = [call EXCEPT ![c] =
                   IF Matches(expected, m) THEN RunQueryLoopBody(@, m)
                   ELSE Thrown(@)]

----------------------------------------------------------------------------
(* getTypeData                                                             *)

\* the ParseError built from an ErrorResponse
ParseErrorOf(parseResult) ==
    LET errorFields == parseResult.fields
    IN  [errorCode |-> Get(errorFields, "R"),
         hint |-> Get(errorFields, "H"),
         message |-> Get(errorFields, "M"),
         position |-> Get(errorFields, "P")]

GetTypeDataParse(c) ==
    /\ call[c].pc = "gtd_parse"
    /\ Send(c, "parse", [name |-> call[c].name, query |-> call[c].gtdQuery,
                         dataTypes |-> <<>>])
    /\ call' = [call EXCEPT ![c].pc = "gtd_describe"]

GetTypeDataDescribe(c) ==
    /\ call[c].pc = "gtd_describe"
    /\ Send(c, "describe", [name |-> call[c].name, type |-> "Statement"])
    /\ call' = [call EXCEPT ![c].pc = "gtd_close"]

\* a probe that forgets the Flush
GetTypeDataCloseSkipsFlush(c) ==
    /\ call[c].pc = "gtd_close"
    /\ Send(c, "close", [target |-> "Statement", targetName |-> call[c].name])
    /\ call' = [call EXCEPT ![c].pc = "gtd_parseResult"]

GetTypeDataClose(c) ==
    /\ call[c].pc = "gtd_close"
    /\ Send(c, "close", [target |-> "Statement", targetName |-> call[c].name])
    /\ call' = [call EXCEPT ![c].pc = "gtd_flush"]

GetTypeDataFlush(c) ==
    /\ call[c].pc = "gtd_flush"
    /\ Send(c, "flush", Void)
    /\ call' = [call EXCEPT ![c].pc = "gtd_parseResult"]

\* a probe that takes an error-response for parse-complete
AfterParseResultIgnoresError(self, parseResult) ==
    [self EXCEPT !.pc = "gtd_params"]

\* what follows the first reply: the error case, or on to the descriptions
AfterParseResult(self, parseResult) ==
    IF "fields" \in DOMAIN parseResult
    THEN Returned(self, ParseErrorOf(parseResult))
    ELSE [self EXCEPT !.pc = "gtd_params"]

GetTypeDataParseResult(c) ==
    /\ call[c].pc = "gtd_parseResult"
    /\ \E i \in Arriving :
         LET m == Message(i)
             expected == {"errorResponse", "parseComplete"}
         IN  /\ Reply(c, expected, m)
             /\ call' = [call EXCEPT ![c] =
                   IF Matches(expected, m) THEN AfterParseResult(@, m)
                   ELSE Thrown(@)]

\* a probe that never finds the parameter list
ParamsOfAlwaysEmpty(paramsResult) == <<>>

ParamsOf(paramsResult) ==
    IF "params" \in DOMAIN paramsResult THEN paramsResult.params ELSE <<>>

GetTypeDataParams(c) ==
    /\ call[c].pc = "gtd_params"
    /\ \E i \in Arriving :
         LET m == Message(i)
             expected == {"parameterDescription", "noData"}
         IN  /\ Reply(c, expected, m)
             /\ call' = [call EXCEPT ![c] =
                   IF Matches(expected, m)
                   THEN [@ EXCEPT !.pc = "gtd_fields", !.params = ParamsOf(m)]
                   ELSE Thrown(@)]

FieldsOf(fieldsResult) ==
    IF "fields" \in DOMAIN fieldsResult THEN fieldsResult.fields ELSE <<>>

\* a probe that returns once it has the fields, close-complete not awaited
GetTypeDataFieldsReturnsEarly(c) ==
    /\ call[c].pc = "gtd_fields"
    /\ \E i \in Arriving :
         LET m == Message(i)
             expected == {"rowDescription", "noData"}
         IN  /\ Reply(c, expected, m)
             /\ call' = [call EXCEPT ![c] =
                   IF Matches(expected, m)
                   THEN Returned([@ EXCEPT !.params = <<>>, !.fields = <<>>],
                                 [params |-> @.params, fields |-> FieldsOf(m)])
                   ELSE Thrown(@)]

GetTypeDataFields(c) ==
    /\ call[c].pc = "gtd_fields"
    /\ \E i \in Arriving :
         LET m == Message(i)
             expected == {"rowDescription", "noData"}
         IN  /\ Reply(c, expected, m)
             /\ call' = [call EXCEPT ![c] =
                   IF Matches(expected, m)
                   THEN [@ EXCEPT !.pc = "gtd_closeComplete", !.fields = FieldsOf(m)]
                   ELSE Thrown(@)]

GetTypeDataCloseComplete(c) ==
    /\ call[c].pc = "gtd_closeComplete"
    /\ \E i \in Arriving :
         LET m == Message(i)
             expected == {"closeComplete"}
         IN  /\ Reply(c, expected, m)
             /\ call' = [call EXCEPT ![c] =
                   IF Matches(expected, m)
                   THEN Returned([@ EXCEPT !.params = <<>>, !.fields = <<>>],
                                 [params |-> @.params, fields |-> @.fields])
                   ELSE Thrown(@)]

----------------------------------------------------------------------------
(* getTypes                                                                *)

\* paramTypeOIDs.concat(returnTypesOIDs)
usedTypesOIDs(params, fields) ==
    [i \in 1..Len(params) |-> params[i].oid]
    \o [i \in 1..Len(fields) |-> fields[i].typeOID]

\* the text of the type-name catalog query
TypeQuery(params, fields) ==
    <<"select oid, typname from pg_type where oid in (">>
    \o Join(Map(DecStr, usedTypesOIDs(params, fields)), <<",">>)
    \o <<")">>

attrMatcher(field) ==
    <<"(attrelid = ">> \o DecStr(field.tableOID)
    \o <<" and attnum = ">> \o DecStr(field.columnAttrNumber) \o <<")">>

attrSelection(fields) ==
    IF Len(fields) > 0 THEN Join(Map(attrMatcher, fields), <<" or ">>)
    ELSE <<"false">>

\* the text of the attribute catalog query
AttributeQuery(fields) ==
    <<"select (attrelid || ':' || attnum) as attid, attname, attnotnull from pg_attribute where ">>
    \o attrSelection(fields) \o <<";">>

RECURSIVE TypeMapOf(_)
\* typeRows.reduce((acc, [oid, typeName]) => ({ ...acc, [oid]: typeName }), {})
TypeMapOf(typeRows) ==
    IF typeRows = <<>> THEN <<>>
    ELSE LET row == typeRows[Len(typeRows)]
         IN  ObjSet(TypeMapOf(SubSeq(typeRows, 1, Len(typeRows) - 1)),
                    At(row, 0), At(row, 1))

\* an entry that takes the not-null flag itself for nullable
AttrEntryNotNegated(attname, attnotnull) ==
    [columnName |-> attname, nullable |-> attnotnull = <<"t">>]

\* the AttributeInfo entry of one attribute row
AttrEntry(attname, attnotnull) ==
    [columnName |-> attname, nullable |-> attnotnull # <<"t">>]

RECURSIVE AttrMapOf(_)
\* attributeRows.reduce((acc, [attid, attname, attnotnull]) => ..., {})
AttrMapOf(attributeRows) ==
    IF attributeRows = <<>> THEN <<>>
    ELSE LET row == attributeRows[Len(attributeRows)]
         IN  ObjSet(AttrMapOf(SubSeq(attributeRows, 1, Len(attributeRows) - 1)),
                    At(row, 0), AttrEntry(At(row, 1), At(row, 2)))

\* `${f.tableOID}:${f.columnAttrNumber}`
AttrKey(f) == DecStr(f.tableOID) \o <<":">> \o DecStr(f.columnAttrNumber)

\* a merge that looks the type name up by the table's OID
ReturnTypeByTableOID(f, typeMap, attrMap) ==
    IF AttrKey(f) \in DOMAIN attrMap
    THEN [columnName |-> attrMap[AttrKey(f)].columnName,
          nullable |-> attrMap[AttrKey(f)].nullable,
          returnName |-> f.name,
          typeName |-> Get(typeMap, DecStr(f.tableOID))]
    ELSE [returnName |-> f.name,
          typeName |-> Get(typeMap, DecStr(f.tableOID))]

\* one element of fields.map(f => ({ ...attrMap[key], returnName, typeName }))
ReturnType(f, typeMap, attrMap) ==
    IF AttrKey(f) \in DOMAIN attrMap
    THEN [columnName |-> attrMap[AttrKey(f)].columnName,
          nullable |-> attrMap[AttrKey(f)].nullable,
          returnName |-> f.name,
          typeName |-> Get(typeMap, DecStr(f.typeOID))]
    ELSE [returnName |-> f.name,
          typeName |-> Get(typeMap, DecStr(f.typeOID))]

ReturnTypes(fields, typeMap, attrMap) ==
    [i \in 1..Len(fields) |-> ReturnType(fields[i], typeMap, attrMap)]

RECURSIVE ParamTypesFirstWins(_, _, _)
\* a loop that keeps the first type written for a name
ParamTypesFirstWins(params, paramNames, typeMap) ==
    IF params = <<>> THEN <<>>
    ELSE LET index == Len(params) - 1
             rest == ParamTypesFirstWins(SubSeq(params, 1, index), paramNames, typeMap)
         IN  IF At(paramNames, index) \in DOMAIN rest THEN rest
             ELSE ObjSet(rest, At(paramNames, index),
                         Get(typeMap, DecStr(params[index + 1].oid)))

RECURSIVE ParamTypes(_, _, _)
\* params.forEach((param, index) => paramTypes[paramNames[index]] = typeMap[param.oid])
ParamTypes(params, paramNames, typeMap) ==
    IF params = <<>> THEN <<>>
    ELSE LET index == Len(params) - 1
         IN  ObjSet(ParamTypes(SubSeq(params, 1, index), paramNames, typeMap),
                    At(paramNames, index),
                    Get(typeMap, DecStr(params[index + 1].oid)))

\* desugarQuery(query), then the call of getTypeData
GetTypesDesugar(c) ==
    /\ call[c].pc = "gt_desugar"
    /\ LET d == desugarQuery(call[c].query)
       IN  call' = [call EXCEPT ![c] =
              [@ EXCEPT !.desugaredQuery = d.desugaredQuery,
                        !.paramNames = d.paramNames,
                        !.gtdQuery = d.desugaredQuery,
                        !.pc = "gtd_parse", !.ret = "gt_typeData"]]
    /\ UNCHANGED <<log, inbox>>

\* a resolver that runs the user's statement as a simple query
AfterTypeDataRunsUserQuery(self, typeData) ==
    IF "errorCode" \in DOMAIN typeData
    THEN Returned([self EXCEPT !.retval = Nil], typeData)
    ELSE [self EXCEPT !.typeData = typeData, !.retval = Nil,
                      !.rqQuery = self.desugaredQuery,
                      !.pc = "rq_send", !.ret = "gt_typeRows"]

\* a resolver that never settles when the probe returned a ParseError
AfterTypeDataHangsOnParseError(self, typeData) ==
    IF "errorCode" \in DOMAIN typeData
    THEN self
    ELSE [self EXCEPT !.typeData = typeData, !.retval = Nil,
                      !.rqQuery = TypeQuery(typeData.params, typeData.fields),
                      !.pc = "rq_send", !.ret = "gt_typeRows"]

\* a resolver that asks for the attributes before the type names
AfterTypeDataAsksAttributesFirst(self, typeData) ==
    IF "errorCode" \in DOMAIN typeData
    THEN Returned([self EXCEPT !.retval = Nil], typeData)
    ELSE [self EXCEPT !.typeData = typeData, !.retval = Nil,
                      !.rqQuery = AttributeQuery(typeData.fields),
                      !.pc = "rq_send", !.ret = "gt_typeRows"]

\* getTypeData has returned: the ParseError goes back as it is, TypeData
\* leads to the type-name catalog query
AfterTypeData(self, typeData) ==
    IF "errorCode" \in DOMAIN typeData
    THEN Returned([self EXCEPT !.retval = Nil], typeData)
    ELSE [self EXCEPT !.typeData = typeData, !.retval = Nil,
                      !.rqQuery = TypeQuery(typeData.params, typeData.fields),
                      !.pc = "rq_send", !.ret = "gt_typeRows"]

GetTypesTypeData(c) ==
    /\ call[c].pc = "gt_typeData"
    /\ call' = [call EXCEPT ![c] = AfterTypeData(@, @.retval)]
    /\ UNCHANGED <<log, inbox>>

\* the type rows are in: fold them, then the attribute catalog query
GetTypesTypeRows(c) ==
    /\ call[c].pc = "gt_typeRows"
    /\ LET self == call[c]
       IN  call' = [call EXCEPT ![c] =
              [self EXCEPT !.typeMap = TypeMapOf(self.retval.rows),
                           !.retval = Nil,
                           !.rqQuery = AttributeQuery(self.typeData.fields),
                           !.pc = "rq_send", !.ret = "gt_attributeRows"]]
    /\ UNCHANGED <<log, inbox>>

\* the attribute rows are in: fold them and build the result
ResolvedTypes(self, attributeRows) ==
    [paramTypes |-> ParamTypes(self.typeData.params, self.paramNames, self.typeMap),
     returnTypes |-> ReturnTypes(self.typeData.fields, self.typeMap,
                                 AttrMapOf(attributeRows))]

GetTypesAttributeRows(c) ==
    /\ call[c].pc = "gt_attributeRows"
    /\ LET self == call[c]
       IN  call' = [call EXCEPT ![c] =
              Returned([self EXCEPT !.attrMap = AttrMapOf(self.retval.rows),
                                    !.retval = Nil],
                       ResolvedTypes(self, self.retval.rows))]
    /\ UNCHANGED <<log, inbox>>

----------------------------------------------------------------------------
(* The calls a client makes: one caller, one exported function.            *)

Callers == {1}

GetTypesInputs ==
    {[query |-> <<":", "a", ",", ":", "b">>, name |-> "twoParams"],
     [query |-> <<":", "a", ",", ":", "a">>, name |-> "sameParam"],
     [query |-> <<"x">>, name |-> "noParam"]}

InitialCalls ==
    {NewCall("startup", "su_connect", <<>>, "")}
    \cup {NewCall("runQuery", "rq_send", <<"select 1 where false">>, "")}
    \cup {NewCall("getTypeData", "gtd_parse", <<"$", "1">>, "probe")}
    \cup {NewCall("getTypes", "gt_desugar", in.query, in.name) : in \in GetTypesInputs}

Init ==
    /\ call \in [Callers -> InitialCalls]
    /\ log = <<>>
    /\ inbox = <<>>

Next ==
    \E c \in Callers :
        \/ StartupConnect(c)
        \/ StartupSend(c)
        \/ StartupReply(c)
        \/ RunQuerySend(c)
        \/ RunQueryRowDescription(c)
        \/ RunQueryLoop(c)
        \/ GetTypeDataParse(c)
        \/ GetTypeDataDescribe(c)
        \/ GetTypeDataClose(c)
        \/ GetTypeDataFlush(c)
        \/ GetTypeDataParseResult(c)
        \/ GetTypeDataParams(c)
        \/ GetTypeDataFields(c)
        \/ GetTypeDataCloseComplete(c)
        \/ GetTypesDesugar(c)
        \/ GetTypesTypeData(c)
        \/ GetTypesTypeRows(c)
        \/ GetTypesAttributeRows(c)

Spec == Init /\ [][Next]_vars

----------------------------------------------------------------------------
(* desugarQuery on its own, over every short text of an alphabet that has  *)
(* the colon, word characters, the dollar sign and a separator.            *)

Alphabet == {":", "a", "b", "1", "$", " "}

Texts == UNION {[1..n -> Alphabet] : n \in 0..MaxLen}

\* the example of the documentation: ":a, :b, :a"
ExampleText == <<":", "a", ",", " ", ":", "b", ",", " ", ":", "a">>

InitDesugar ==
    /\ call \in [Callers -> {NewCall("desugarQuery", "dq_call", text, "")
                             : text \in Texts \cup {ExampleText}}]
    /\ log = <<>>
    /\ inbox = <<>>

DesugarQuery(c) ==
    /\ call[c].pc = "dq_call"
    /\ call' = [call EXCEPT ![c] = Returned(@, desugarQuery(@.query))]
    /\ UNCHANGED <<log, inbox>>

NextDesugar == \E c \in Callers : DesugarQuery(c)

SpecDesugar == InitDesugar /\ [][NextDesugar]_vars

----------------------------------------------------------------------------
(* The functions that read the queue themselves, against a peer whose      *)
(* messages the queue buffers before a reply() reads them: every message   *)
(* is in the inbox in the state before the step that consumes it.          *)

BufferedCalls ==
    {NewCall("startup", "su_connect", <<>>, "")}
    \cup {NewCall("runQuery", "rq_send", <<"select 1 where false">>, "")}
    \cup {NewCall("getTypeData", "gtd_parse", <<"$", "1">>, "probe")}

InitBuffered ==
    /\ call \in [Callers -> BufferedCalls]
    /\ log = <<>>
    /\ inbox = <<>>

\* the peer sends one message, which the queue buffers
Deliver ==
    /\ inbox = <<>>
    /\ \E c \in Callers : call[c].pc \notin {"done", "failed"}
    /\ \E i \in DOMAIN Inbound :
         /\ Inbound[i].kind = "dataRow" =>
               \A c \in Callers : Len(call[c].resultRows) < MaxRows
         /\ inbox' = <<Inbound[i]>>
    /\ UNCHANGED <<call, log>>

\* a reply() resumes when the queue holds a message
Buffered == inbox # <<>>

NextBuffered ==
    \/ Deliver
    \/ \E c \in Callers :
         \/ StartupConnect(c)
         \/ StartupSend(c)
         \/ Buffered /\ StartupReply(c)
         \/ RunQuerySend(c)
         \/ Buffered /\ RunQueryRowDescription(c)
         \/ Buffered /\ RunQueryLoop(c)
         \/ GetTypeDataParse(c)
         \/ GetTypeDataDescribe(c)
         \/ GetTypeDataClose(c)
         \/ GetTypeDataFlush(c)
         \/ Buffered /\ GetTypeDataParseResult(c)
         \/ Buffered /\ GetTypeDataParams(c)
         \/ Buffered /\ GetTypeDataFields(c)
         \/ Buffered /\ GetTypeDataCloseComplete(c)

SpecBuffered == InitBuffered /\ [][NextBuffered]_vars

----------------------------------------------------------------------------
(* Two callers on one queue, against a peer that answers every request     *)
(* with the replies the functions await for it: parse-complete for Parse,  *)
(* the two descriptions for Describe, close-complete for Close (all held   *)
(* back until a Flush or a simple query), and a row-description, one data  *)
(* row and command-complete for a simple query.  Every reply is marked     *)
(* with the caller whose request it answers.                               *)

SharedCallers == {1, 2}

\* m as the reply owed to a request of caller c
OwedTo(c, m) == ObjSet(m, "for", c)

\* what Describe tells of the statement with the given name
DescribedParams(name) == IF name = "twoParams" THEN ParamLists[3] ELSE ParamLists[1]

DescribedFields(name) == IF name = "twoParams" THEN FieldLists[2] ELSE FieldLists[1]

\* the replies the peer produces for one request
AnswersTo(request) ==
    LET c == request.c
    IN  IF request.kind = "parse" THEN <<OwedTo(c, [kind |-> "parseComplete"])>>
        ELSE IF request.kind = "describe"
        THEN << OwedTo(c, [kind |-> "parameterDescription",
                           params |-> DescribedParams(request.payload.name)]),
                OwedTo(c, [kind |-> "rowDescription",
                           fields |-> DescribedFields(request.payload.name)]) >>
        ELSE IF request.kind = "close" THEN <<OwedTo(c, [kind |-> "closeComplete"])>>
        ELSE IF request.kind = "query"
        THEN << OwedTo(c, [kind |-> "rowDescription", fields |-> FieldLists[1]]),
                OwedTo(c, IF request.payload.query[1] = TypeQuery(<<>>, <<>>)[1]
                          THEN DataRows[1] ELSE DataRows[3]),
                OwedTo(c, [kind |-> "commandComplete", commandTag |-> <<"SELECT">>]) >>
        ELSE <<>>

RECURSIVE Answered(_, _, _, _)
\* the replies the peer has put on the wire for the requests of the log, from
\* entry i on, with the replies sent so far and those it still holds back
Answered(lg, i, sent, held) ==
    IF i > Len(lg) THEN sent
    ELSE IF lg[i].op # "send" THEN Answered(lg, i + 1, sent, held)
    ELSE IF lg[i].kind \in {"flush", "query"}
    THEN Answered(lg, i + 1, sent \o held \o AnswersTo(lg[i]), <<>>)
    ELSE Answered(lg, i + 1, sent, held \o AnswersTo(lg[i]))

\* the number of messages the queue has taken from the wire
Taken == Cardinality({i \in DOMAIN log : log[i].op = "reply"}) + Len(inbox)

\* the next reply on the wire reaches the queue
DeliverOwed ==
    /\ Taken < Len(Answered(log, 1, <<>>, <<>>))
    /\ inbox' = Append(inbox, Answered(log, 1, <<>>, <<>>)[Taken + 1])
    /\ UNCHANGED <<call, log>>

SharedCalls ==
    [c \in SharedCallers |->
        IF c = 1 THEN NewCall("getTypes", "gt_desugar", <<":", "a", ",", ":", "b">>, "twoParams")
        ELSE NewCall("getTypes", "gt_desugar", <<"x">>, "noParam")]

InitShared ==
    /\ call = SharedCalls
    /\ log = <<>>
    /\ inbox = <<>>

\* the times the queue has passed from one caller to the other
Switches == Cardinality({i \in 1..(Len(log) - 1) : log[i].c # log[i + 1].c})

\* caller c may perform the next queue operation
Turn(c) ==
    IF log = <<>> THEN TRUE
    ELSE IF log[Len(log)].c = c THEN TRUE
    ELSE Switches < MaxSwitches

NextShared ==
    \/ DeliverOwed
    \/ \E c \in SharedCallers :
         \/ Turn(c) /\ RunQuerySend(c)
         \/ Turn(c) /\ Buffered /\ RunQueryRowDescription(c)
         \/ Turn(c) /\ Buffered /\ RunQueryLoop(c)
         \/ Turn(c) /\ GetTypeDataParse(c)
         \/ Turn(c) /\ GetTypeDataDescribe(c)
         \/ Turn(c) /\ GetTypeDataClose(c)
         \/ Turn(c) /\ GetTypeDataFlush(c)
         \/ Turn(c) /\ Buffered /\ GetTypeDataParseResult(c)
         \/ Turn(c) /\ Buffered /\ GetTypeDataParams(c)
         \/ Turn(c) /\ Buffered /\ GetTypeDataFields(c)
         \/ Turn(c) /\ Buffered /\ GetTypeDataCloseComplete(c)
         \/ GetTypesDesugar(c)
         \/ GetTypesTypeData(c)
         \/ GetTypesTypeRows(c)
         \/ GetTypesAttributeRows(c)

SpecShared == InitShared /\ [][NextShared]_vars

----------------------------------------------------------------------------
(* One caller against a peer that keeps sending: whenever the queue holds  *)
(* nothing and the call is not over, the peer eventually sends a message,  *)
(* and it sends at most MaxRows data rows to one simple query (so it       *)
(* eventually sends something else).  The JavaScript event loop resumes a  *)
(* continuation whose await has a message to read, and runs a step that    *)
(* awaits nothing.                                                         *)

LiveCalls ==
    {NewCall("startup", "su_connect", <<>>, ""),
     NewCall("runQuery", "rq_send", <<"select 1 where false">>, ""),
     NewCall("getTypeData", "gtd_parse", <<"$", "1">>, "probe"),
     NewCall("getTypes", "gt_desugar", <<":", "a", ",", ":", "b">>, "twoParams")}

\* the messages this peer sends: one of each kind
LiveInbound ==
    << [kind |-> "readyForQuery"],
       [kind |-> "errorResponse", fields |-> SyntaxErrorFields],
       [kind |-> "parseComplete"],
       [kind |-> "noData"],
       [kind |-> "closeComplete"],
       [kind |-> "commandComplete", commandTag |-> <<"SELECT">>],
       [kind |-> "parameterDescription", params |-> ParamLists[3]],
       [kind |-> "rowDescription", fields |-> FieldLists[1]],
       DataRows[1] >>

InitLive ==
    /\ call \in [Callers -> LiveCalls]
    /\ log = <<>>
    /\ inbox = <<>>

\* the peer sends one message, which the queue buffers
DeliverLive ==
    /\ inbox = <<>>
    /\ \E c \in Callers : call[c].pc \notin {"done", "failed"}
    /\ \E i \in DOMAIN LiveInbound :
         /\ LiveInbound[i].kind = "dataRow" =>
               \A c \in Callers : Len(call[c].resultRows) < MaxRows
         /\ inbox' = <<LiveInbound[i]>>
    /\ UNCHANGED <<call, log>>

\* the steps of caller c; an await resumes only with a message to read
CallerNext(c) ==
    \/ StartupConnect(c)
    \/ StartupSend(c)
    \/ Buffered /\ StartupReply(c)
    \/ RunQuerySend(c)
    \/ Buffered /\ RunQueryRowDescription(c)
    \/ Buffered /\ RunQueryLoop(c)
    \/ GetTypeDataParse(c)
    \/ GetTypeDataDescribe(c)
    \/ GetTypeDataClose(c)
    \/ GetTypeDataFlush(c)
    \/ Buffered /\ GetTypeDataParseResult(c)
    \/ Buffered /\ GetTypeDataParams(c)
    \/ Buffered /\ GetTypeDataFields(c)
    \/ Buffered /\ GetTypeDataCloseComplete(c)
    \/ GetTypesDesugar(c)
    \/ GetTypesTypeData(c)
    \/ GetTypesTypeRows(c)
    \/ GetTypesAttributeRows(c)

NextLive == DeliverLive \/ \E c \in Callers : CallerNext(c)

SpecLive ==
    /\ InitLive
    /\ [][NextLive]_vars
    /\ WF_vars(DeliverLive)
    /\ \A c \in Callers : WF_vars(CallerNext(c))

----------------------------------------------------------------------------
(* One caller against the answering peer, which may close a simple query   *)
(* the way a PostgreSQL server does: with ready-for-query after            *)
(* command-complete.                                                       *)

\* the kinds of the messages the queue has taken from the wire, in order
Wire ==
    [i \in 1..Len(SelectSeq(log, LAMBDA e : e.op = "reply")) |->
        SelectSeq(log, LAMBDA e : e.op = "reply")[i].kind]
    \o [i \in 1..Len(inbox) |-> inbox[i].kind]

\* how many of them answer a request
TakenAnswers == Cardinality({i \in DOMAIN Wire : Wire[i] # "readyForQuery"})

\* the next reply to a request reaches the queue
DeliverAnswer ==
    /\ TakenAnswers < Len(Answered(log, 1, <<>>, <<>>))
    /\ inbox' = Append(inbox, Answered(log, 1, <<>>, <<>>)[TakenAnswers + 1])
    /\ UNCHANGED <<call, log>>

\* the peer follows a command-complete with ready-for-query
DeliverReadyForQuery ==
    /\ Wire # <<>>
    /\ IF Wire # <<>> THEN Wire[Len(Wire)] = "commandComplete" ELSE FALSE
    /\ inbox' = Append(inbox, [kind |-> "readyForQuery"])
    /\ UNCHANGED <<call, log>>

ReadyCalls ==
    {NewCall("runQuery", "rq_send", <<"select attname from pg_attribute">>, "")}
    \cup {NewCall("getTypeData", "gtd_parse", <<"$", "1">>, "probe")}
    \cup {NewCall("getTypes", "gt_desugar", in.query, in.name) : in \in GetTypesInputs}

InitReady ==
    /\ call \in [Callers -> ReadyCalls]
    /\ log = <<>>
    /\ inbox = <<>>

NextReady ==
    \/ DeliverAnswer
    \/ DeliverReadyForQuery
    \/ \E c \in Callers :
         \/ RunQuerySend(c)
         \/ Buffered /\ RunQueryRowDescription(c)
         \/ Buffered /\ RunQueryLoop(c)
         \/ GetTypeDataParse(c)
         \/ GetTypeDataDescribe(c)
         \/ GetTypeDataClose(c)
         \/ GetTypeDataFlush(c)
         \/ Buffered /\ GetTypeDataParseResult(c)
         \/ Buffered /\ GetTypeDataParams(c)
         \/ Buffered /\ GetTypeDataFields(c)
         \/ Buffered /\ GetTypeDataCloseComplete(c)
         \/ GetTypesDesugar(c)
         \/ GetTypesTypeData(c)
         \/ GetTypesTypeRows(c)
         \/ GetTypesAttributeRows(c)

SpecReady == InitReady /\ [][NextReady]_vars

----------------------------------------------------------------------------
(* Reading the log.                                                        *)

\* the queue operations of caller c, in order
EventsOf(c) == SelectSeq(log, LAMBDA e : e.c = c)

\* the operations of c's probe: those before the first simple query
ProbeLog(c) ==
    LET ev == EventsOf(c)
        queries == {i \in DOMAIN ev : ev[i].op = "send" /\ ev[i].kind = "query"}
    IN  IF queries = {} THEN ev
        ELSE SubSeq(ev, 1, (CHOOSE i \in queries : \A j \in queries : i <= j) - 1)

Probing(c) == call[c].op \in {"getTypeData", "getTypes"}

ProbePcs ==
    {"gtd_parse", "gtd_describe", "gtd_close", "gtd_flush", "gtd_parseResult",
     "gtd_params", "gtd_fields", "gtd_closeComplete"}

\* the probe of c has returned or thrown
ProbeOver(c) == Probing(c) /\ call[c].pc \notin ProbePcs \cup {"gt_desugar"}

\* the query text the probe of c is given
ProbeText(c) ==
    IF call[c].op = "getTypes" THEN desugarQuery(call[c].query).desugaredQuery
    ELSE call[c].query

\* Parse, Describe, Close and Flush as the probe of c has to send them
ProbeBatch(c) ==
    << Event(c, "send", "parse", {},
             [name |-> call[c].name, query |-> ProbeText(c), dataTypes |-> <<>>]),
       Event(c, "send", "describe", {},
             [name |-> call[c].name, type |-> "Statement"]),
       Event(c, "send", "close", {},
             [target |-> "Statement", targetName |-> call[c].name]),
       Event(c, "send", "flush", {}, Void) >>

IsParseError(value) == "errorCode" \in DOMAIN value

\* the first reply the probe of c awaited was of the given kind
FirstReply(c, kind) ==
    LET p == ProbeLog(c)
    IN  Len(p) >= 5 /\ p[5].op = "reply" /\ p[5].kind = kind

PossibleParams == {ParamLists[i] : i \in DOMAIN ParamLists} \cup {<<>>}

PossibleFields == {FieldLists[i] : i \in DOMAIN FieldLists} \cup {<<>>}

\* the texts of the two catalog queries, for every TypeData of the model
CatalogQueries ==
    {TypeQuery(p, f) : p \in PossibleParams, f \in PossibleFields}
    \cup {AttributeQuery(f) : f \in PossibleFields}

----------------------------------------------------------------------------
(* C1: in every run of the probe the first four queue operations are the   *)
(* sends of Parse(name, text, no parameter types), Describe(statement,     *)
(* name), Close(statement, name) and Flush, in this order; every later      *)
(* operation of the probe is a reply(), so exactly four messages are sent   *)
(* and all four precede the first await; a probe that is over has awaited.  *)
C1_ProbeBatchFirst ==
    \A c \in DOMAIN call :
        Probing(c) =>
            LET p == ProbeLog(c)
            IN  /\ \A i \in DOMAIN p :
                     IF i <= 4 THEN p[i] = ProbeBatch(c)[i] ELSE p[i].op = "reply"
                /\ ProbeOver(c) => Len(p) >= 5

\* a probe has sent its batch and awaited its first reply
C1_Witness ==
    \E c \in DOMAIN call :
        /\ call[c].op = "getTypeData"
        /\ Len(ProbeLog(c)) >= 5
        /\ ProbeLog(c)[5].op = "reply"

----------------------------------------------------------------------------
(* C2: in a run of getTypes every message sent is a Parse, Describe,       *)
(* Close, Flush or simple query (never Bind or Execute); the only Parse is *)
(* the first message and carries the desugared query text; Describe, Close *)
(* and Flush carry no query text; every simple query carries the text of   *)
(* one of the two catalog queries, never the user's text.                  *)
C2_NeverExecutes ==
    \A c \in DOMAIN call :
        call[c].op = "getTypes" =>
            LET ev == EventsOf(c)
                userTexts == {call[c].query, ProbeText(c)}
            IN  \A i \in DOMAIN ev :
                    ev[i].op = "send" =>
                        /\ ev[i].kind \in {"parse", "describe", "close", "flush", "query"}
                        /\ ev[i].kind \notin {"bind", "execute"}
                        /\ ev[i].kind = "parse" =>
                              i = 1 /\ ev[i].payload.query = ProbeText(c)
                        /\ ev[i].kind \in {"describe", "close", "flush"} =>
                              "query" \notin DOMAIN ev[i].payload
                        /\ ev[i].kind = "query" =>
                              /\ ev[i].payload.query \in CatalogQueries
                              /\ ev[i].payload.query \notin userTexts

\* a resolve that ran both catalog queries and returned ResolvedTypes
C2_Witness ==
    \E c \in DOMAIN call :
        /\ call[c].op = "getTypes"
        /\ call[c].pc = "done"
        /\ "paramTypes" \in DOMAIN call[c].result
        /\ Cardinality({i \in DOMAIN log : log[i].kind = "query"}) = 2

----------------------------------------------------------------------------
(* C3: when the first reply the probe awaits is an error-response, that    *)
(* reply is the last queue operation of the call: the probe returns a      *)
(* ParseError at once, and getTypes returns the very ParseError its probe  *)
(* returned, having sent no simple query.                                  *)
C3_ErrorEndsTheCall ==
    \A c \in DOMAIN call :
        (Probing(c) /\ FirstReply(c, "errorResponse")) =>
            /\ Len(EventsOf(c)) = 5
            /\ \/ call[c].pc = "done" /\ IsParseError(call[c].result)
               \/ /\ call[c].op = "getTypes"
                  /\ call[c].pc = "gt_typeData"
                  /\ IsParseError(call[c].retval)

C3_SameParseError ==
    \A c \in DOMAIN call :
        (call[c].pc = "gt_typeData" /\ IsParseError(call[c].retval)) =>
            /\ call'[c].pc = "done"
            /\ call'[c].result = call[c].retval

C3_ParseErrorShortCircuits ==
    [](C3_ErrorEndsTheCall) /\ [][C3_SameParseError]_vars

\* a resolve that returned the ParseError of its probe
C3_Witness ==
    \E c \in DOMAIN call :
        /\ call[c].op = "getTypes"
        /\ call[c].pc = "done"
        /\ IsParseError(call[c].result)
        /\ FirstReply(c, "errorResponse")

----------------------------------------------------------------------------
(* C4: after parse-complete the probe awaits three more times, in order    *)
(* {parameter-description, no-data}, {row-description, no-data} and        *)
(* {close-complete}, each only when the one before was answered as         *)
(* expected; it returns TypeData only after close-complete; params is the  *)
(* list the parameter-description carried (empty on no-data), fields the   *)
(* list the row-description carried (empty on no-data), as received.       *)
C4_AwaitsInOrder ==
    \A c \in DOMAIN call :
        (Probing(c) /\ FirstReply(c, "parseComplete")) =>
            LET p == ProbeLog(c)
            IN  /\ Len(p) <= 8
                /\ \A i \in 6..Len(p) : p[i].op = "reply" /\ p[i - 1].kind \in p[i - 1].expected
                /\ p[5].expected = {"errorResponse", "parseComplete"}
                /\ Len(p) >= 6 => p[6].expected = {"parameterDescription", "noData"}
                /\ Len(p) >= 7 => p[7].expected = {"rowDescription", "noData"}
                /\ Len(p) >= 8 => p[8].expected = {"closeComplete"}
                /\ (call[c].op = "getTypeData" /\ call[c].pc = "done") =>
                       /\ Len(p) = 8
                       /\ p[8].kind = "closeComplete"
                       /\ DOMAIN call[c].result = {"params", "fields"}

C4_TypeDataAsReceived ==
    \A c \in DOMAIN call :
        (call[c].op = "getTypeData" /\ inbox # <<>> /\ call'[c] # call[c]) =>
            LET m == Head(inbox)
            IN  /\ (call[c].pc = "gtd_params" /\ m.kind = "parameterDescription") =>
                       call'[c].params = m.params
                /\ (call[c].pc = "gtd_params" /\ m.kind = "noData") =>
                       call'[c].params = <<>>
                /\ (call[c].pc = "gtd_fields" /\ m.kind = "rowDescription") =>
                       call'[c].fields = m.fields /\ call'[c].params = call[c].params
                /\ (call[c].pc = "gtd_fields" /\ m.kind = "noData") =>
                       call'[c].fields = <<>> /\ call'[c].params = call[c].params
                /\ (call[c].pc = "gtd_closeComplete" /\ m.kind = "closeComplete") =>
                       /\ call'[c].pc = "done"
                       /\ call'[c].result =
                              [params |-> call[c].params, fields |-> call[c].fields]

C4_ProbeSuccessPath ==
    [](C4_AwaitsInOrder) /\ [][C4_TypeDataAsReceived]_vars

\* a probe that returned TypeData with parameters and fields
C4_Witness ==
    \E c \in DOMAIN call :
        /\ call[c].op = "getTypeData"
        /\ call[c].pc = "done"
        /\ ~IsParseError(call[c].result)
        /\ Len(call[c].result.params) = 2
        /\ Len(call[c].result.fields) = 3

----------------------------------------------------------------------------
(* C5: the ParseError built from an error-response has errorCode equal to  *)
(* the response's code field (tag C), hint equal to its hint (H), message  *)
(* equal to its message (M) and position equal to its position (P); with a *)
(* code field present, errorCode is defined and non-empty.                 *)
C5_ParseErrorFields ==
    \A c \in DOMAIN call :
        (/\ call[c].op = "getTypeData"
         /\ call[c].pc = "gtd_parseResult"
         /\ inbox # <<>>
         /\ Head(inbox).kind = "errorResponse"
         /\ call'[c] # call[c]) =>
            LET errorFields == Head(inbox).fields
                error == call'[c].result
            IN  /\ error.errorCode = Get(errorFields, "C")
                /\ error.hint = Get(errorFields, "H")
                /\ error.message = Get(errorFields, "M")
                /\ error.position = Get(errorFields, "P")
                /\ Get(errorFields, "C") \notin {Undefined, <<>>} =>
                       error.errorCode \notin {Undefined, <<>>}

C5_ErrorCodeIsTheCodeField == [][C5_ParseErrorFields]_vars

----------------------------------------------------------------------------
(* C6: runQuery sends one simple query, carrying its text, and nothing     *)
(* else; it awaits one row-description, then {data-row, command-complete}  *)
(* again and again, and stops at the first command-complete; it returns    *)
(* the rows received before it, in arrival order, each the texts of the    *)
(* row's columns in column order; with no data row it returns the empty    *)
(* sequence.                                                               *)
C6_OneQueryThenReplies ==
    \A c \in DOMAIN call :
        call[c].op = "runQuery" =>
            LET ev == EventsOf(c)
                n == Len(ev)
            IN  /\ n >= 1 =>
                       ev[1] = Event(c, "send", "query", {}, [query |-> call[c].query])
                /\ \A i \in 2..n :
                       /\ ev[i].op = "reply"
                       /\ ev[i].expected = IF i = 2 THEN {"rowDescription"}
                                           ELSE {"dataRow", "commandComplete"}
                /\ \A i \in 2..(n - 1) :
                       ev[i].kind \in ev[i].expected /\ ev[i].kind # "commandComplete"
                /\ (n >= 3 /\ ev[n].kind = "commandComplete") <=> call[c].pc = "done"
                /\ call[c].pc = "done" =>
                       /\ DOMAIN call[c].result = {"rows"}
                       /\ Len(call[c].result.rows) = n - 3
                /\ call[c].pc = "rq_loop" => Len(call[c].resultRows) = n - 2

\* row holds, column by column, the text of each column's value
TextsOfColumns(row, columns) ==
    /\ Len(row) = Len(columns)
    /\ \A i \in DOMAIN columns : Buffer(row[i]) = columns[i].value

C6_RowsAsReceived ==
    \A c \in DOMAIN call :
        (call[c].op = "runQuery" /\ call'[c] # call[c]) =>
            /\ call[c].pc = "rq_send" => call'[c].resultRows = <<>>
            /\ call[c].pc = "rq_rowDescription" => call'[c].resultRows = <<>>
            /\ (call[c].pc = "rq_loop" /\ inbox # <<>> /\ Head(inbox).kind = "dataRow") =>
                   LET old == call[c].resultRows
                       new == call'[c].resultRows
                   IN  /\ call'[c].pc = "rq_loop"
                       /\ Len(new) = Len(old) + 1
                       /\ SubSeq(new, 1, Len(old)) = old
                       /\ TextsOfColumns(new[Len(new)], Head(inbox).columns)
            /\ (call[c].pc = "rq_loop" /\ inbox # <<>>
                  /\ Head(inbox).kind = "commandComplete") =>
                   /\ call'[c].pc = "done"
                   /\ call'[c].result = [rows |-> call[c].resultRows]

C6_RunQueryCollectsRows ==
    [](C6_OneQueryThenReplies) /\ [][C6_RowsAsReceived]_vars

\* runQuery returned two different rows
C6_Witness ==
    \E c \in DOMAIN call :
        /\ call[c].op = "runQuery"
        /\ call[c].pc = "done"
        /\ Len(call[c].result.rows) = 2
        /\ call[c].result.rows[1] # call[c].result.rows[2]

\* runQuery returned the empty sequence after an immediate command-complete
C6_WitnessNoRows ==
    \E c \in DOMAIN call :
        /\ call[c].op = "runQuery"
        /\ call[c].pc = "done"
        /\ call[c].result.rows = <<>>

----------------------------------------------------------------------------
(* Reading a query text the way the placeholder pattern is described.      *)

\* the positions of the colons: each starts one placeholder match
Colons(text) == {i \in DOMAIN text : text[i] = ":"}

\* the last position of the match that starts at colon p: the colon and
\* the identifier characters that follow it, as many as there are
MatchEnd(text, p) ==
    CHOOSE j \in p..Len(text) :
        /\ \A i \in (p + 1)..j : text[i] \in WordChars
        /\ j = Len(text) \/ text[j + 1] \notin WordChars

\* the k-th smallest element of a set of positions
Nth(positions, k) ==
    CHOOSE p \in positions : Cardinality({q \in positions : q < p}) = k - 1

\* the name of the k-th match
NameOfMatch(text, k) ==
    LET p == Nth(Colons(text), k) IN SubSeq(text, p + 1, MatchEnd(text, p))

RECURSIVE Rewritten(_, _)
\* the text up to the end of the k-th match, with match j replaced by "$j"
Rewritten(text, k) ==
    IF k = 0 THEN <<>>
    ELSE LET p == Nth(Colons(text), k)
             from == IF k = 1 THEN 1
                     ELSE MatchEnd(text, Nth(Colons(text), k - 1)) + 1
         IN  Rewritten(text, k - 1) \o SubSeq(text, from, p - 1)
             \o <<"$">> \o DecStr(k)

\* the whole text with every match replaced and the rest kept
RewrittenText(text) ==
    LET n == Cardinality(Colons(text))
        from == IF n = 0 THEN 1 ELSE MatchEnd(text, Nth(Colons(text), n)) + 1
    IN  Rewritten(text, n) \o SubSeq(text, from, Len(text))

\* the positional placeholders of a text: a dollar sign before a digit
Markers(text) ==
    {i \in DOMAIN text :
        /\ text[i] = "$"
        /\ i < Len(text)
        /\ text[i + 1] \in {Digits[d] : d \in DOMAIN Digits}}

\* what desugarQuery returned for the text of caller c
Desugared(c) == call[c].op = "desugarQuery" /\ call[c].pc = "done"

\* the parts of C7 that do not count placeholders
DesugarRewrites(c) ==
    LET text == call[c].query
        names == call[c].result.paramNames
        out == call[c].result.desugaredQuery
    IN  /\ Len(names) = Cardinality(Colons(text))
        /\ \A k \in DOMAIN names : names[k] = NameOfMatch(text, k)
        /\ out = RewrittenText(text)
        /\ Colons(text) = {} => out = text /\ names = <<>>
        /\ text = ExampleText =>
               /\ out = <<"$", "1", ",", " ", "$", "2", ",", " ", "$", "3">>
               /\ names = << <<"a">>, <<"b">>, <<"a">> >>

----------------------------------------------------------------------------
(* C7 as amended: desugarQuery replaces the k-th placeholder match (a      *)
(* colon and the identifier characters after it) by "$k", k from 1, and    *)
(* keeps the rest of the text; the names are those of the matches in       *)
(* order, duplicates kept; a text without a colon comes back unchanged     *)
(* with no names; the desugared text holds as many positional placeholders *)
(* as there are names plus those the input text already held.              *)
C7_DesugarAmended ==
    \A c \in DOMAIN call :
        Desugared(c) =>
            /\ DesugarRewrites(c)
            /\ Cardinality(Markers(call[c].result.desugaredQuery))
                   = Len(call[c].result.paramNames)
                     + Cardinality(Markers(call[c].query))

(* C7 as claimed: the same, with the number of positional placeholders of  *)
(* the desugared text equal to the number of names for every input text.   *)
C7_DesugarAsClaimed ==
    \A c \in DOMAIN call :
        Desugared(c) =>
            /\ DesugarRewrites(c)
            /\ Cardinality(Markers(call[c].result.desugaredQuery))
                   = Len(call[c].result.paramNames)

\* the documentation's example has been desugared
C7_Witness ==
    \E c \in DOMAIN call :
        /\ Desugared(c)
        /\ call[c].query = ExampleText
        /\ Len(call[c].result.paramNames) = 3

----------------------------------------------------------------------------
(* Reading the result of a resolve.                                        *)

\* getTypes of caller c has returned ResolvedTypes
Resolved(c) ==
    /\ call[c].op = "getTypes"
    /\ call[c].pc = "done"
    /\ "paramTypes" \in DOMAIN call[c].result

\* TypeNameMap[oid] of caller c
TypeName(c, oid) == Get(call[c].typeMap, DecStr(oid))

\* the key paramTypes gets for parameter index i (from 1)
NameOfParam(c, i) == At(call[c].paramNames, i - 1)

----------------------------------------------------------------------------
(* C8: in the result of a successful resolve, for every parameter index i  *)
(* of the TypeData, paramTypes maps the name of i to TypeNameMap[oid of    *)
(* parameter i] unless a later index carries the same name (then the       *)
(* later one's value is kept); when the two parameters of a query carry    *)
(* two distinct names, paramTypes has exactly these two keys, each with    *)
(* the type name of the parameter at its own position.                     *)
C8_ParamTypes ==
    \A c \in DOMAIN call :
        Resolved(c) =>
            LET params == call[c].typeData.params
                names == call[c].paramNames
                paramTypes == call[c].result.paramTypes
            IN  /\ \A i \in DOMAIN params :
                       (\A j \in DOMAIN params :
                            j > i => NameOfParam(c, j) # NameOfParam(c, i)) =>
                           /\ NameOfParam(c, i) \in DOMAIN paramTypes
                           /\ paramTypes[NameOfParam(c, i)] = TypeName(c, params[i].oid)
                /\ DOMAIN paramTypes = {NameOfParam(c, i) : i \in DOMAIN params}
                /\ (Len(params) = 2 /\ Len(names) = 2 /\ names[1] # names[2]) =>
                       /\ DOMAIN paramTypes = {names[1], names[2]}
                       /\ paramTypes[names[1]] = TypeName(c, params[1].oid)
                       /\ paramTypes[names[2]] = TypeName(c, params[2].oid)

\* two distinct names resolved to two different type names
C8_Witness ==
    \E c \in DOMAIN call :
        /\ Resolved(c)
        /\ call[c].paramNames = << <<"a">>, <<"b">> >>
        /\ DOMAIN call[c].result.paramTypes = {<<"a">>, <<"b">>}
        /\ call[c].result.paramTypes[<<"a">>] = <<"i", "n", "t", "4">>
        /\ call[c].result.paramTypes[<<"b">>] = <<"t", "e", "x", "t">>

\* one name used twice: the type of the second use is the one kept
C8_WitnessLastWins ==
    \E c \in DOMAIN call :
        /\ Resolved(c)
        /\ call[c].paramNames = << <<"a">>, <<"a">> >>
        /\ Len(call[c].typeData.params) = 2
        /\ call[c].result.paramTypes[<<"a">>] = <<"t", "e", "x", "t">>

----------------------------------------------------------------------------
(* C9: in the result of a successful resolve, returnTypes has one entry    *)
(* per field of the TypeData, in field order; entry i has returnName the   *)
(* name of field i and typeName TypeNameMap[typeOID of field i]; its       *)
(* columnName and nullable are those of the AttributeInfo entry keyed      *)
(* "tableOID:attrNum" of field i when there is one, and the entry has      *)
(* neither when there is none.                                             *)
C9_ReturnTypes ==
    \A c \in DOMAIN call :
        Resolved(c) =>
            LET fields == call[c].typeData.fields
                attrMap == call[c].attrMap
                returnTypes == call[c].result.returnTypes
            IN  /\ Len(returnTypes) = Len(fields)
                /\ \A i \in DOMAIN fields :
                       LET key == DecStr(fields[i].tableOID) \o <<":">>
                                      \o DecStr(fields[i].columnAttrNumber)
                           entry == returnTypes[i]
                       IN  /\ entry.returnName = fields[i].name
                           /\ entry.typeName = TypeName(c, fields[i].typeOID)
                           /\ key \in DOMAIN attrMap =>
                                  /\ DOMAIN entry =
                                         {"returnName", "typeName", "columnName", "nullable"}
                                  /\ entry.columnName = attrMap[key].columnName
                                  /\ entry.nullable = attrMap[key].nullable
                           /\ key \notin DOMAIN attrMap =>
                                  DOMAIN entry = {"returnName", "typeName"}

\* a resolve succeeded with a table column (attribute data merged, type
\* name resolved) next to an expression (no attribute data)
C9_Witness ==
    \E c \in DOMAIN call :
        /\ Resolved(c)
        /\ Len(call[c].result.returnTypes) = 3
        /\ call[c].result.returnTypes[1] =
               [returnName |-> <<"i", "d">>, typeName |-> <<"i", "n", "t", "4">>,
                columnName |-> <<"i", "d">>, nullable |-> FALSE]
        /\ DOMAIN call[c].result.returnTypes[3] = {"returnName", "typeName"}

----------------------------------------------------------------------------
(* C10: when the attribute rows are folded, the AttributeInfo entry of a   *)
(* row has nullable = false exactly when the row's not-null flag is the    *)
(* text "t" and nullable = true for any other flag; a field's return type  *)
(* has nullable only when an attribute row carries the field's key, and    *)
(* then it is the entry's.                                                 *)
C10_NullableDerived ==
    \A c \in DOMAIN call :
        (call[c].op = "getTypes" /\ call[c].pc = "gt_attributeRows"
           /\ call'[c] # call[c]) =>
            LET rows == call[c].retval.rows
                attrMap == call'[c].attrMap
                fields == call[c].typeData.fields
                returnTypes == call'[c].result.returnTypes
                \* the rows that no later row of the same key overwrites
                kept == {r \in DOMAIN rows :
                            \A q \in DOMAIN rows : q > r => At(rows[q], 0) # At(rows[r], 0)}
            IN  /\ call'[c].pc = "done"
                /\ DOMAIN attrMap = {At(rows[r], 0) : r \in DOMAIN rows}
                /\ \A r \in kept :
                       LET entry == attrMap[At(rows[r], 0)]
                       IN  /\ entry.nullable = FALSE <=> At(rows[r], 2) = <<"t">>
                           /\ entry.nullable = TRUE <=> At(rows[r], 2) # <<"t">>
                /\ \A i \in DOMAIN fields :
                       LET withRow == \E r \in DOMAIN rows : At(rows[r], 0) = AttrKey(fields[i])
                       IN  /\ "nullable" \in DOMAIN returnTypes[i] <=> withRow
                           /\ withRow =>
                                  returnTypes[i].nullable = attrMap[AttrKey(fields[i])].nullable

C10_NullableFromFlag == [][C10_NullableDerived]_vars

\* one result with a not-null column, a nullable column and an expression
C10_Witness ==
    \E c \in DOMAIN call :
        /\ Resolved(c)
        /\ Len(call[c].result.returnTypes) = 3
        /\ "nullable" \in DOMAIN call[c].result.returnTypes[1]
        /\ "nullable" \in DOMAIN call[c].result.returnTypes[2]
        /\ call[c].result.returnTypes[1].nullable = FALSE
        /\ call[c].result.returnTypes[2].nullable = TRUE
        /\ "nullable" \notin DOMAIN call[c].result.returnTypes[3]

----------------------------------------------------------------------------
(* Reading the attribute catalog query.                                    *)

\* the fields that carry a table reference
TableFields(fields) == SelectSeq(fields, LAMBDA f : f.tableOID # 0)

\* the predicate with a disjunct for each field of a table and no other,
\* and the constant false when no field is of a table
TableFieldsSelection(fields) ==
    IF TableFields(fields) = <<>> THEN <<"false">>
    ELSE Join(Map(attrMatcher, TableFields(fields)), <<" or ">>)

\* caller c is running, or about to send, its attribute catalog query
AttributeQuerying(c) == call[c].op = "getTypes" /\ call[c].ret = "gt_attributeRows"

----------------------------------------------------------------------------
(* C11: the predicate of the attribute catalog query getTypes sends has    *)
(* one (tableOID, columnAttrNumber) disjunct for each field whose tableOID *)
(* is not 0, none for a field whose tableOID is 0, and is the constant     *)
(* false when no field has a non-zero tableOID (also with no field).       *)
C11_PredicateOverTableFields ==
    \A c \in DOMAIN call :
        AttributeQuerying(c) =>
            call[c].rqQuery =
                <<"select (attrelid || ':' || attnum) as attid, attname, attnotnull from pg_attribute where ">>
                \o TableFieldsSelection(call[c].typeData.fields) \o <<";">>

----------------------------------------------------------------------------
(* Reading the awaits of the log.                                          *)

\* the awaits of caller c that received a message of a kind they did not
\* expect, as indexes of EventsOf(c)
Mismatches(c) ==
    {i \in DOMAIN EventsOf(c) :
        /\ EventsOf(c)[i].op = "reply"
        /\ EventsOf(c)[i].kind \notin EventsOf(c)[i].expected}

----------------------------------------------------------------------------
(* C12: when an await of startup, runQuery, getTypeData or getTypes        *)
(* receives a message of a kind outside its expected set, the call ends in *)
(* a fatal error: it has no result and no ParseError, and the mismatched   *)
(* await is the last operation the call performs on the queue (no further  *)
(* send, no further await); a call fails in no other way.                  *)
C12_DesyncIsFatal ==
    \A c \in DOMAIN call :
        /\ Mismatches(c) # {} =>
               /\ Mismatches(c) = {Len(EventsOf(c))}
               /\ call[c].pc = "failed"
               /\ call[c].result = Nil
               /\ call[c].retval = Nil
        /\ call[c].pc = "failed" => Mismatches(c) # {}

\* a resolve died of a mismatch during one of its catalog queries
C12_Witness ==
    \E c \in DOMAIN call :
        /\ call[c].op = "getTypes"
        /\ call[c].pc = "failed"
        /\ Len(EventsOf(c)) >= 10
        /\ Mismatches(c) = {Len(EventsOf(c))}

----------------------------------------------------------------------------
(* C13: getTypes returns a ParseError only when the first reply its probe  *)
(* awaited was an error-response; an error-response received by any later  *)
(* await of the call (the descriptions, close-complete, the replies of the *)
(* two catalog queries) ends the call in failure, with neither a           *)
(* ParseError nor ResolvedTypes.                                           *)
C13_ParseErrorOnlyFromParse ==
    \A c \in DOMAIN call :
        call[c].op = "getTypes" =>
            LET ev == EventsOf(c)
            IN  /\ (call[c].pc = "done" /\ IsParseError(call[c].result)) =>
                       FirstReply(c, "errorResponse") /\ Len(ev) = 5
                /\ \A i \in DOMAIN ev :
                       (i > 5 /\ ev[i].op = "reply" /\ ev[i].kind = "errorResponse") =>
                           /\ i = Len(ev)
                           /\ call[c].pc = "failed"
                           /\ call[c].result = Nil

\* an error-response in answer to a catalog query made the resolve fail
C13_Witness ==
    \E c \in DOMAIN call :
        /\ call[c].op = "getTypes"
        /\ call[c].pc = "failed"
        /\ Len(EventsOf(c)) >= 10
        /\ EventsOf(c)[Len(EventsOf(c))].kind = "errorResponse"
        /\ EventsOf(c)[Len(EventsOf(c)) - 1].kind = "query"

----------------------------------------------------------------------------
(* C14: startup performs connect, then one send of a Startup message whose *)
(* parameters are the user, the database and the client encoding 'utf-8',  *)
(* then one await that expects ready-for-query only, in this order and     *)
(* nothing else; it returns (no value) when ready-for-query arrives, and   *)
(* any other kind, an error-response included, ends it in failure with no  *)
(* returned value.                                                         *)
C14_StartupSequence ==
    \A c \in DOMAIN call :
        call[c].op = "startup" =>
            LET ev == EventsOf(c)
                n == Len(ev)
            IN  /\ n <= 3
                /\ n >= 1 => ev[1] = Event(c, "connect", "", {}, Nil)
                /\ n >= 2 =>
                       ev[2] = Event(c, "send", "startupMessage", {},
                                     [params |-> [user |-> call[c].options.user,
                                                  database |-> call[c].options.database,
                                                  client_encoding |-> <<"'utf-8'">>]])
                /\ n >= 3 => ev[3].op = "reply" /\ ev[3].expected = {"readyForQuery"}
                /\ call[c].pc = "done" <=> (n = 3 /\ ev[3].kind = "readyForQuery")
                /\ call[c].pc = "done" => call[c].result = Void
                /\ call[c].pc = "failed" <=> (n = 3 /\ ev[3].kind # "readyForQuery")
                /\ call[c].pc = "failed" => call[c].result = Nil

\* the server rejected the handshake: startup failed on an error-response
C14_Witness ==
    \E c \in DOMAIN call :
        /\ call[c].op = "startup"
        /\ call[c].pc = "failed"
        /\ Len(EventsOf(c)) = 3
        /\ EventsOf(c)[3].kind = "errorResponse"

\* the handshake went through
C14_WitnessReady ==
    \E c \in DOMAIN call :
        /\ call[c].op = "startup"
        /\ call[c].pc = "done"
        /\ EventsOf(c)[3].kind = "readyForQuery"

----------------------------------------------------------------------------
(* Reading a run of two callers.                                           *)

\* the awaits of caller c that consumed a reply owed to another caller's
\* request, as indexes of EventsOf(c)
Foreign(c) ==
    {i \in DOMAIN EventsOf(c) :
        /\ EventsOf(c)[i].op = "reply"
        /\ "for" \in DOMAIN EventsOf(c)[i].payload
        /\ EventsOf(c)[i].payload.for # c}

Over(c) == call[c].pc \in {"done", "failed"}

\* caller c is suspended in an await
Awaiting(c) ==
    call[c].pc \in {"su_reply", "rq_rowDescription", "rq_loop", "gtd_parseResult",
                    "gtd_params", "gtd_fields", "gtd_closeComplete"}

\* some caller used the queue while the call of another was in progress
Overlapped ==
    \E c \in DOMAIN call, p \in DOMAIN log :
        /\ log[p].c # c
        /\ \E i \in 1..(p - 1) : log[i].c = c
        /\ ~Over(c) \/ \E k \in (p + 1)..Len(log) : log[k].c = c

----------------------------------------------------------------------------
(* C15: nothing in the functions serializes two callers of one queue.  As  *)
(* long as no caller uses the queue while another's call is in progress,   *)
(* at most one await is outstanding, every await consumes a reply owed to  *)
(* its own call, no call fails, and a resolve returns the types of its own *)
(* statement; the witnesses show that calls that do overlap reach a        *)
(* result built from the other call's replies, and a desync.               *)
C15_OnlyOverlapBreaksCalls ==
    ~Overlapped =>
        /\ Cardinality({c \in DOMAIN call : Awaiting(c)}) <= 1
        /\ \A c \in DOMAIN call :
               /\ Foreign(c) = {}
               /\ call[c].pc # "failed"
               /\ Resolved(c) =>
                      /\ Len(call[c].result.returnTypes)
                             = Len(DescribedFields(call[c].name))
                      /\ Len(call[c].typeData.params)
                             = Len(DescribedParams(call[c].name))

\* two overlapping resolves: one returned ResolvedTypes built from the
\* descriptions owed to the other
C15_Witness ==
    \E c \in DOMAIN call :
        /\ Resolved(c)
        /\ Foreign(c) # {}
        /\ Len(call[c].typeData.params) # Len(DescribedParams(call[c].name))

\* two overlapping resolves: one consumed the other's reply and desynced
C15_WitnessDesync ==
    \E c \in DOMAIN call :
        /\ call[c].pc = "failed"
        /\ Len(EventsOf(c)) \in Foreign(c)

\* two awaits outstanding at once
C15_WitnessTwoAwaits ==
    Cardinality({c \in DOMAIN call : Awaiting(c)}) = 2

----------------------------------------------------------------------------
(* C16: the queue operations of a successful resolve are, in order: the    *)
(* probe batch; the probe's four awaits, answered by parse-complete, a     *)
(* parameter description or no-data, a row description or no-data, and     *)
(* close-complete; the type-name query and its replies (row-description,   *)
(* data rows, command-complete); the attribute query and its replies, the  *)
(* same way; nothing else.  Exactly two simple queries are sent.  In every *)
(* state of a resolve, a message sent after the batch is a simple query    *)
(* and directly follows the reply that ended the exchange before it        *)
(* (close-complete or command-complete).                                   *)
C16_ResolveOrder ==
    \A c \in DOMAIN call :
        call[c].op = "getTypes" =>
            LET ev == EventsOf(c)
                n == Len(ev)
                queries == {i \in DOMAIN ev : ev[i].op = "send" /\ ev[i].kind = "query"}
                typeData == call[c].typeData
            IN  /\ \A i \in DOMAIN ev :
                       (ev[i].op = "send" /\ i > 4) =>
                           /\ i \in queries
                           /\ ev[i - 1].op = "reply"
                           /\ ev[i - 1].kind \in {"closeComplete", "commandComplete"}
                           /\ ev[i - 1].kind \in ev[i - 1].expected
                /\ Cardinality(queries) <= 2
                /\ Resolved(c) =>
                       /\ \A i \in 1..4 : ev[i] = ProbeBatch(c)[i]
                       /\ \A i \in 5..8 : ev[i].op = "reply"
                       /\ ev[5].kind = "parseComplete"
                       /\ ev[6].kind \in {"parameterDescription", "noData"}
                       /\ ev[7].kind \in {"rowDescription", "noData"}
                       /\ ev[8].kind = "closeComplete"
                       /\ Cardinality(queries) = 2
                       /\ 9 \in queries
                       /\ LET second == CHOOSE i \in queries : i # 9
                          IN  /\ ev[9].payload.query
                                     = TypeQuery(typeData.params, typeData.fields)
                              /\ ev[10].kind = "rowDescription"
                              /\ \A i \in 11..(second - 2) : ev[i].kind = "dataRow"
                              /\ ev[second - 1].kind = "commandComplete"
                              /\ ev[second].payload.query = AttributeQuery(typeData.fields)
                              /\ ev[second + 1].kind = "rowDescription"
                              /\ \A i \in (second + 2)..(n - 1) : ev[i].kind = "dataRow"
                              /\ ev[n].kind = "commandComplete"
                              /\ n > second + 1

\* a successful resolve whose two catalog queries both returned rows
C16_Witness ==
    \E c \in DOMAIN call :
        /\ Resolved(c)
        /\ Len(EventsOf(c)) >= 17
        /\ EventsOf(c)[11].kind = "dataRow"
        /\ EventsOf(c)[Len(EventsOf(c)) - 1].kind = "dataRow"

----------------------------------------------------------------------------
(* C17: against a peer that keeps sending (and sends finitely many data    *)
(* rows to a simple query), every call of startup, runQuery, getTypeData   *)
(* and getTypes eventually ends: returned, or failed.  A caller suspended  *)
(* in an await with no message to read takes no step: nothing but a        *)
(* message of the peer changes the state (no timeout, no cancellation).    *)
C17_SuspendedUntilMessage ==
    \A c \in DOMAIN call :
        (Awaiting(c) /\ inbox = <<>>) => (call' = call /\ log' = log)

C17_EndsUnlessPeerSilent ==
    /\ \A c \in Callers : <>Over(c)
    /\ [][C17_SuspendedUntilMessage]_vars

\* a caller is suspended in the loop of runQuery with nothing to read, rows
\* collected
C17_Witness ==
    \E c \in DOMAIN call :
        /\ call[c].pc = "rq_loop"
        /\ inbox = <<>>
        /\ Len(call[c].resultRows) = MaxRows

\* a resolve has ended with ResolvedTypes
C17_WitnessResolved == \E c \in DOMAIN call : Resolved(c)

----------------------------------------------------------------------------
(* Reading the type-name catalog query.                                    *)

\* caller c is running, or about to send, its type-name catalog query
TypeQuerying(c) == call[c].op = "getTypes" /\ call[c].ret = "gt_typeRows"

\* the text between the parentheses of "oid in (...)"
OIDListOf(query) == SubSeq(query, 2, Len(query) - 1)

----------------------------------------------------------------------------
(* C18: for every TypeData the probe returns, the one without parameters   *)
(* and without fields included, the OID list of the type-name catalog      *)
(* query getTypes sends is not empty: the query is well-formed.            *)
C18_OIDListNeverEmpty ==
    \A c \in DOMAIN call :
        TypeQuerying(c) =>
            /\ call[c].rqQuery[1] = "select oid, typname from pg_type where oid in ("
            /\ call[c].rqQuery[Len(call[c].rqQuery)] = ")"
            /\ OIDListOf(call[c].rqQuery) # <<>>

----------------------------------------------------------------------------
(* Reading the wire.                                                       *)

\* so far the peer has followed every command-complete with ready-for-query
FollowedByReady ==
    \A i \in DOMAIN Wire :
        Wire[i] = "commandComplete" => (i < Len(Wire) /\ Wire[i + 1] = "readyForQuery")

----------------------------------------------------------------------------
(* C19: when the peer follows the command-complete of each simple query    *)
(* with ready-for-query, the queue holds no unconsumed message once        *)
(* runQuery has returned, and getTypes is not desynced: the awaits of its  *)
(* second catalog query receive the replies to that query.                 *)
C19_NothingLeftBehind ==
    FollowedByReady =>
        \A c \in DOMAIN call :
            /\ (call[c].op = "runQuery" /\ call[c].pc = "done") => inbox = <<>>
            /\ call[c].op = "getTypes" =>
                   /\ call[c].pc # "failed"
                   /\ call[c].pc \in {"gt_typeRows", "gt_attributeRows", "done"} =>
                          inbox = <<>>

(* the second half of C19 on its own: with such a peer getTypes does not   *)
(* fail.                                                                   *)
C19_ResolveNotDesynced ==
    FollowedByReady =>
        \A c \in DOMAIN call : call[c].op = "getTypes" => call[c].pc # "failed"

----------------------------------------------------------------------------
(* C20: in every ResolvedTypes result each key of paramTypes is one of the *)
(* names desugarQuery recorded for the query, also when the TypeData has   *)
(* more parameters than there are names: a parameter index without a name  *)
(* gets no key.                                                            *)
C20_KeysAreRecordedNames ==
    \A c \in DOMAIN call :
        Resolved(c) =>
            LET names == desugarQuery(call[c].query).paramNames
            IN  DOMAIN call[c].result.paramTypes \subseteq {names[i] : i \in DOMAIN names}

============================================================================
